---- MODULE Spec2Model ----
(***************************************************************************)
(* ddns-gandi (src/main.rs): one run of the dynamic-DNS synchronizer.      *)
(* The run discovers the public IPv4/IPv6 addresses, then walks the        *)
(* configured records x {A, AAAA}, reading each remote record and writing  *)
(* the discovered address to it.  Every await of main is one step.         *)
(***************************************************************************)
EXTENDS Integers, Sequences, FiniteSets, TLC

VARIABLES
    records,       \* config.records: the record names, in declared order
    remote,        \* the provider's rrset values per <<name, dns_type>>
    pc,            \* where main stands
    ipv4, ipv6,    \* the two halves of get_public_ips' result
    i, f,          \* position of the two nested loops of main
    gandi_record,  \* main's local: the result of the last read
    n_changed,     \* main's counter
    resp,          \* the response of the last remote call
    log,           \* history: the remote calls issued in this run, in order
    n201,          \* history: write calls of this run answered with 201
    accepted,      \* history: the <<name, dns_type>> of those write calls
    summary,       \* the final "Success! n DNS records were changed." line
    exit_code,     \* the process's exit status once the run has ended
    run,           \* which run this is
    prev           \* history: what the previous run discovered and how it ended

vars == <<records, remote, pc, ipv4, ipv6, i, f, gandi_record, n_changed,
          resp, log, n201, accepted, summary, exit_code, run, prev>>

----------------------------------------------------------------------------
(* Bounds of the model *)

MaxRecords == 2
MaxRuns == 2
\* the longest record list of the specification with consecutive runs
MaxRerunRecords == 1

Names == {"home", "www"}
OldAddr == [A |-> "9.9.9.9", AAAA |-> "2001:db8::9"]
CurAddr == [A |-> "1.2.3.4", AAAA |-> "2001:db8::1"]
DnsTypes == {"A", "AAAA"}

\* what the provider may hold for one record before the first run
RemoteChoices(t) == { <<>>, <<CurAddr[t]>>, <<OldAddr[t], CurAddr[t]>> }

----------------------------------------------------------------------------
(* Option, Result and JSON values *)

None == [some |-> FALSE]
Some(v) == [some |-> TRUE, val |-> v]

JNull == [t |-> "null"]
JStr(s) == [t |-> "str", s |-> s]
JArr(a) == [t |-> "arr", a |-> a]
BadJson == [t |-> "bad"]

as_str(v) == IF v.t = "str" THEN Some(v.s) ELSE None
as_array(v) == IF v.t = "arr" THEN Some(v.a) ELSE None
unwrap_or(o, d) == IF o.some THEN o.val ELSE d

NetErr == [kind |-> "neterr", status |-> 0, body |-> BadJson]
Http(status, body) == [kind |-> "http", status |-> status, body |-> body]

is_success(status) == status >= 200 /\ status < 300

----------------------------------------------------------------------------
(* get_public_ip: None on a transport failure, a non-2xx status or an      *)
(* unparsable body; otherwise the "ip" field, "" when it is no string.     *)
(* A parsed body is modelled by the value of the one field the code reads. *)

\* mutant: a failed discovery falls back to the empty address
get_public_ip_DefaultsOnFailure(reply) ==
    IF reply.kind = "neterr" THEN Some("")
    ELSE IF is_success(reply.status)
         THEN IF reply.body = BadJson THEN Some("")
              ELSE Some(unwrap_or(as_str(reply.body), ""))
         ELSE Some("")

get_public_ip(reply) ==
    IF reply.kind = "neterr" THEN None
    ELSE IF is_success(reply.status)
         THEN IF reply.body = BadJson THEN None
              ELSE Some(unwrap_or(as_str(reply.body), ""))
         ELSE None

(* get_gandi_record: None on failure; otherwise rrset_values, each element *)
(* as a string ("" when it is none), empty when the field is no array.     *)

\* mutant: a failed read yields a made-up value instead of None
get_gandi_record_GuessesOnFailure(reply) ==
    IF reply.kind = "neterr" THEN Some(<<"">>)
    ELSE IF is_success(reply.status)
         THEN IF reply.body = BadJson THEN Some(<<"">>)
              ELSE LET values == unwrap_or(as_array(reply.body), <<>>)
                   IN  Some([k \in 1..Len(values) |->
                               unwrap_or(as_str(values[k]), "")])
         ELSE Some(<<"">>)

get_gandi_record(reply) ==
    IF reply.kind = "neterr" THEN None
    ELSE IF is_success(reply.status)
         THEN IF reply.body = BadJson THEN None
              ELSE LET values == unwrap_or(as_array(reply.body), <<>>)
                   IN  Some([k \in 1..Len(values) |->
                               unwrap_or(as_str(values[k]), "")])
         ELSE None

(* update_gandi_record *)

RRSET_TTL == 1800

\* mutant: the TTL of the payload is not the fixed one
payload_OtherTtl(new_ip) == [rrset_ttl |-> 300, rrset_values |-> <<new_ip>>]

payload(new_ip) == [rrset_ttl |-> RRSET_TTL, rrset_values |-> <<new_ip>>]

\* mutant: every 2xx status counts as a change
changed_AnySuccess(status) == is_success(status)

changed(status) == status = 201

Err == [ok |-> FALSE, val |-> FALSE]
Ok(b) == [ok |-> TRUE, val |-> b]

\* mutant: a status other than 201 is returned as an error
update_gandi_record_RejectIsError(reply) ==
    IF reply.kind = "neterr" \/ reply.status # 201 THEN Err ELSE Ok(TRUE)

\* mutant: a transport failure is swallowed and reported as "not changed"
update_gandi_record_SwallowsError(reply) ==
    IF reply.kind = "neterr" THEN Ok(FALSE) ELSE Ok(changed(reply.status))

update_gandi_record(reply) ==
    IF reply.kind = "neterr" THEN Err ELSE Ok(changed(reply.status))

----------------------------------------------------------------------------
(* main *)

\* mutant: the AAAA entry comes first
ip_configs_AAAAFirst == << [ip |-> ipv6, dns_type |-> "AAAA"],
                           [ip |-> ipv4, dns_type |-> "A"] >>

\* mutant: the addresses are paired with the wrong record types
ip_configs_Crossed == << [ip |-> ipv6, dns_type |-> "A"],
                         [ip |-> ipv4, dns_type |-> "AAAA"] >>

ip_configs == << [ip |-> ipv4, dns_type |-> "A"],
                 [ip |-> ipv6, dns_type |-> "AAAA"] >>

\* the inner loop body runs for a family only when its address was discovered
FamilyEnabled(ip) == ip.some

\* mutant: the emptiness test is missing
ShouldWrite_NoEmptyTest(rec) == rec.some

\* mutant: a failed read is written to as well
ShouldWrite_OnFailure(rec) == ~rec.some \/ Len(rec.val) > 0

\* the write is reached when the read gave Some(non-empty)
ShouldWrite(rec) == rec.some /\ Len(rec.val) > 0

\* mutant: the inner loop is left after its first family
NextI_LeavesRecord == i + 1

\* mutant: the outer loop never moves to the next record
NextI_StaysOnRecord == i

\* mutant: a failed read is tried again
NextF_RetriesFailedRead ==
    IF pc = "pair" /\ FamilyEnabled(ip_configs[f].ip) /\ ~gandi_record'.some
    THEN f
    ELSE IF f < Len(ip_configs) THEN f + 1 ELSE 1

\* the next (record, family) position of the two nested loops
NextI == IF f < Len(ip_configs) THEN i ELSE i + 1
NextF == IF f < Len(ip_configs) THEN f + 1 ELSE 1

NoPayload == [rrset_ttl |-> 0, rrset_values |-> <<>>]

Call(op, idx, name, dns_type, body) ==
    [op |-> op, idx |-> idx, name |-> name, dns_type |-> dns_type,
     payload |-> body]

\* the part of a response the run keeps after the call: how it ended
Outcome(reply) ==
    [kind |-> reply.kind, status |-> reply.status,
     parsed |-> reply.body # BadJson]

\* what the echo service may answer: no answer, a non-2xx status, a body
\* that is no JSON, or the address (a JSON body without an "ip" string,
\* which get_public_ip turns into Some(""), is left out of the runs)
ResolverReplies(t) ==
    {NetErr, Http(500, BadJson), Http(200, BadJson),
     Http(200, JStr(CurAddr[t]))}

\* what the provider may answer to a read of a record holding `values`
ReadReplies(values) ==
    {NetErr, Http(404, BadJson), Http(200, BadJson), Http(200, JNull),
     Http(200, JArr([k \in 1..Len(values) |-> JStr(values[k])])),
     Http(200, JArr([k \in 1..Len(values) |-> JNull]))}

\* what the provider may answer to a write
WriteReplies == {NetErr, Http(200, JNull), Http(201, JNull), Http(500, JNull)}

Init ==
    /\ records \in UNION {[1..n -> Names] : n \in 0..MaxRecords}
    /\ remote \in [{<<records[j], t>> : j \in 1..Len(records), t \in DnsTypes}
                     -> UNION {RemoteChoices(t) : t \in DnsTypes}]
    /\ \A k \in DOMAIN remote : remote[k] \in RemoteChoices(k[2])
    /\ pc = "resolve4"
    /\ ipv4 = None /\ ipv6 = None
    /\ i = 1 /\ f = 1
    /\ gandi_record = None
    /\ n_changed = 0
    /\ resp = Outcome(NetErr)
    /\ log = <<>>
    /\ n201 = 0
    /\ accepted = {}
    /\ summary = None
    /\ exit_code = -1
    /\ run = 1
    /\ prev = [ran |-> FALSE, ipv4 |-> None, ipv6 |-> None, clean |-> FALSE,
               writes |-> 0, remote |-> remote]

ResolveV4 ==
    /\ pc = "resolve4"
    /\ \E reply \in ResolverReplies("A") :
        /\ ipv4' = get_public_ip(reply)
        /\ resp' = Outcome(reply)
        /\ log' = Append(log, Call("resolve", 0, "ipify", "v4", NoPayload))
    /\ pc' = "resolve6"
    /\ UNCHANGED <<records, remote, ipv6, i, f, gandi_record, n_changed,
                   n201, accepted, summary, exit_code, run, prev>>

\* mutant: the second discovery asks the IPv4 endpoint again
ResolveV6_AsksV4Again ==
    /\ pc = "resolve6"
    /\ \E reply \in ResolverReplies("A") :
        /\ ipv6' = get_public_ip(reply)
        /\ resp' = Outcome(reply)
        /\ log' = Append(log, Call("resolve", 0, "ipify", "v4", NoPayload))
    /\ pc' = "pair"
    /\ UNCHANGED <<records, remote, ipv4, i, f, gandi_record, n_changed,
                   n201, accepted, summary, exit_code, run, prev>>

ResolveV6 ==
    /\ pc = "resolve6"
    /\ \E reply \in ResolverReplies("AAAA") :
        /\ ipv6' = get_public_ip(reply)
        /\ resp' = Outcome(reply)
        /\ log' = Append(log, Call("resolve", 0, "ipify", "v6", NoPayload))
    /\ pc' = "pair"
    /\ UNCHANGED <<records, remote, ipv4, i, f, gandi_record, n_changed,
                   n201, accepted, summary, exit_code, run, prev>>

\* `if let Some(ip) = ip` fails: nothing is done for this family
SkipFamily ==
    /\ pc = "pair"
    /\ i <= Len(records)
    /\ ~FamilyEnabled(ip_configs[f].ip)
    /\ i' = NextI /\ f' = NextF
    /\ UNCHANGED <<records, remote, pc, ipv4, ipv6, gandi_record, n_changed,
                   resp, log, n201, accepted, summary, exit_code, run, prev>>

\* get_gandi_record(...).await and the branches on its result
ReadRecord ==
    /\ pc = "pair"
    /\ i <= Len(records)
    /\ FamilyEnabled(ip_configs[f].ip)
    /\ \E reply \in ReadReplies(remote[<<records[i], ip_configs[f].dns_type>>]) :
        LET rec == get_gandi_record(reply) IN
        /\ gandi_record' = rec
        /\ resp' = Outcome(reply)
        /\ log' = Append(log, Call("read", i, records[i],
                                   ip_configs[f].dns_type, NoPayload))
        /\ IF ShouldWrite(rec)
           THEN pc' = "write" /\ UNCHANGED <<i, f>>
           ELSE pc' = "pair" /\ i' = NextI /\ f' = NextF
    /\ UNCHANGED <<records, remote, ipv4, ipv6, n_changed, n201, accepted,
                   summary, exit_code, run, prev>>

\* update_gandi_record(...).await? and the counter
WriteRecord ==
    /\ pc = "write"
    /\ LET key == <<records[i], ip_configs[f].dns_type>>
           body == payload(ip_configs[f].ip.val)
       IN
       \E reply \in WriteReplies :
        LET res == update_gandi_record(reply) IN
        /\ resp' = Outcome(reply)
        /\ log' = Append(log, Call("write", i, key[1], key[2], body))
        /\ IF reply.kind = "http" /\ reply.status = 201
           THEN /\ remote' = [remote EXCEPT ![key] = body.rrset_values]
                /\ n201' = n201 + 1
                /\ accepted' = accepted \cup {key}
           ELSE UNCHANGED <<remote, n201, accepted>>
        /\ IF res.ok
           THEN /\ n_changed' = IF res.val THEN n_changed + 1 ELSE n_changed
                /\ pc' = "pair" /\ i' = NextI /\ f' = NextF
                /\ UNCHANGED exit_code
           ELSE /\ pc' = "aborted"
                /\ exit_code' = 1
                /\ UNCHANGED <<n_changed, i, f>>
    /\ UNCHANGED <<records, ipv4, ipv6, gandi_record, summary, run, prev>>

\* mutant: the run returns without the summary line
Finish_NoSummary ==
    /\ pc = "pair"
    /\ i > Len(records)
    /\ exit_code' = 0
    /\ pc' = "done"
    /\ UNCHANGED <<records, remote, ipv4, ipv6, i, f, gandi_record, n_changed,
                   resp, log, n201, accepted, summary, run, prev>>

\* the loops are over: the summary line and Ok(())
Finish ==
    /\ pc = "pair"
    /\ i > Len(records)
    /\ summary' = Some(n_changed)
    /\ exit_code' = 0
    /\ pc' = "done"
    /\ UNCHANGED <<records, remote, ipv4, ipv6, i, f, gandi_record, n_changed,
                   resp, log, n201, accepted, run, prev>>

Next ==
    \/ ResolveV4
    \/ ResolveV6
    \/ SkipFamily
    \/ ReadRecord
    \/ WriteRecord
    \/ Finish

Spec == Init /\ [][Next]_vars

\* every remote call returns, and main is never suspended for good: a step
\* that can be taken is eventually taken
FairSpec == Spec /\ WF_vars(Next)

----------------------------------------------------------------------------
(* Consecutive runs: the program is started again after a run has ended.   *)
(* Nothing is kept between runs but the configuration file and what the    *)
(* provider stores.                                                        *)

NumWrites == Cardinality({k \in 1..Len(log) : log[k].op = "write"})

Restart ==
    /\ pc \in {"done", "aborted"}
    /\ run < MaxRuns
    /\ run' = run + 1
    /\ prev' = [ran |-> TRUE, ipv4 |-> ipv4, ipv6 |-> ipv6,
                clean |-> (pc = "done" /\ n201 = NumWrites),
                writes |-> NumWrites, remote |-> remote]
    /\ pc' = "resolve4"
    /\ ipv4' = None /\ ipv6' = None
    /\ i' = 1 /\ f' = 1
    /\ gandi_record' = None
    /\ n_changed' = 0
    /\ resp' = Outcome(NetErr)
    /\ log' = <<>>
    /\ n201' = 0
    /\ accepted' = {}
    /\ summary' = None
    /\ exit_code' = -1
    /\ UNCHANGED <<records, remote>>

InitRerun == Init /\ Len(records) <= MaxRerunRecords

NextRerun == Next \/ Restart

SpecRerun == InitRerun /\ [][NextRerun]_vars

----------------------------------------------------------------------------
(* Vocabulary of the properties *)

Last == log[Len(log)]
Ip(t) == IF t = "A" THEN ipv4 ELSE ipv6
FamIdx(t) == IF t = "A" THEN 1 ELSE 2
Reads(idx, t) ==
    {k \in 1..Len(log) : log[k].op = "read" /\ log[k].idx = idx /\ log[k].dns_type = t}
Writes(idx, t) ==
    {k \in 1..Len(log) : log[k].op = "write" /\ log[k].idx = idx /\ log[k].dns_type = t}
LastIs(op) == Len(log) > 0 /\ Last.op = op
\* main has left the pair of the last call behind and has not been aborted
MovedPastLast ==
    /\ pc \in {"pair", "done"}
    /\ i > Last.idx \/ (i = Last.idx /\ f > FamIdx(Last.dns_type))
\* the last response is a completed HTTP exchange with a status other than 201
Rejected == resp.kind = "http" /\ resp.status # 201
\* every pair of a family whose address was discovered has been read
AllPairsRead ==
    \A idx \in 1..Len(records) : \A t \in DnsTypes :
        Ip(t).some => Reads(idx, t) # {}

----------------------------------------------------------------------------
(* C1: if the remote first value returned by the read of a pair equals the *)
(* address discovered for its family, no write call is issued for the      *)
(* pair: the most recent call is never a write for a pair whose read       *)
(* returned the discovered address as first value.                         *)
C1_NoWriteWhenEqual ==
    LastIs("write") => gandi_record.val[1] # Ip(Last.dns_type).val

(* C2: when the read of a pair returns an empty sequence, no write call is *)
(* issued for the pair and the run goes on with the next pair.             *)
C2_EmptyNeverWritten ==
    (LastIs("read") /\ gandi_record = Some(<<>>)) =>
        /\ Writes(Last.idx, Last.dns_type) = {}
        /\ MovedPastLast
        /\ exit_code # 1

C2_Witness ==
    /\ LastIs("read") /\ gandi_record = Some(<<>>)
    /\ pc = "pair" /\ i <= Len(records) /\ Ip(ip_configs[f].dns_type).some

(* C3: a pair whose read gave a non-empty sequence whose first value       *)
(* differs from the discovered address gets exactly one write call, which  *)
(* carries the discovered address as its single value and the TTL 1800:    *)
(* right after such a read the write is pending for that very pair, the    *)
(* write follows its read immediately, and no pair is written twice.       *)
C3_OneWriteOnDrift ==
    /\ (LastIs("read") /\ gandi_record.some /\ Len(gandi_record.val) > 0
          /\ gandi_record.val[1] # Ip(Last.dns_type).val) =>
            /\ pc = "write" /\ i = Last.idx /\ f = FamIdx(Last.dns_type)
            /\ Writes(Last.idx, Last.dns_type) = {}
    /\ pc = "write" => LastIs("read")
    /\ \A k \in 1..Len(log) : log[k].op = "write" =>
            /\ k > 1 /\ log[k-1].op = "read"
            /\ log[k-1].idx = log[k].idx /\ log[k-1].dns_type = log[k].dns_type
            /\ Cardinality(Writes(log[k].idx, log[k].dns_type)) = 1
            /\ log[k].payload =
                 [rrset_ttl |-> 1800, rrset_values |-> <<Ip(log[k].dns_type).val>>]

C3_Witness ==
    /\ LastIs("write")
    /\ gandi_record.val[1] # Ip(Last.dns_type).val
    /\ Cardinality(Writes(Last.idx, Last.dns_type)) = 1

(* C4: the reported changed-count equals the number of write calls         *)
(* answered with 201, and the counter never exceeds the number of 201      *)
(* responses received so far.                                              *)
C4_CountIs201 ==
    /\ n_changed <= n201
    /\ pc = "done" => summary = Some(n201)

C4_Witness == pc = "done" /\ n201 >= 1 /\ NumWrites > n201

(* C5: a second run made right after a run that completed with every write *)
(* accepted, with the same discovered addresses and every managed record   *)
(* holding the discovered address, issues no write call: in such a second  *)
(* run the most recent call is never a write for a pair whose read         *)
(* returned what the provider stores.                                      *)
C5_SecondRunWritesNothing ==
    (/\ run = 2 /\ prev.clean /\ prev.writes > 0
     /\ pc \in {"pair", "write", "done", "aborted"}
     /\ ipv4 = prev.ipv4 /\ ipv6 = prev.ipv6
     /\ \A k \in DOMAIN prev.remote :
            Ip(k[2]).some => prev.remote[k] = <<Ip(k[2]).val>>)
    => (LastIs("write") =>
            gandi_record.val # prev.remote[<<Last.name, Last.dns_type>>])

(* C6: a write call answered with a status other than 201 does not         *)
(* increment the changed-count and does not abort the run: the run moves   *)
(* to the next pair, only a transport failure aborts, and a completed run  *)
(* has read every pair and emitted the summary.                            *)
C6_RejectedWriteGoesOn ==
    /\ (LastIs("write") /\ Rejected) => (MovedPastLast /\ exit_code # 1)
    /\ n_changed = n201
    /\ pc = "aborted" => resp.kind = "neterr"
    /\ pc = "done" => (AllPairsRead /\ summary.some)

C6_Witness ==
    /\ pc = "done" /\ NumWrites > n201
    /\ LastIs("read") /\ Len(log) > 3 /\ log[3].op = "read" /\ log[4].op = "write"
    /\ n_changed = 0

(* C7: a transport failure of a write call ends the run at once: nothing   *)
(* is called after it, no summary line is emitted, the exit status is      *)
(* non-zero, and what earlier writes of the run had stored stays stored.   *)
C7_WriteFailureAborts ==
    /\ (LastIs("write") /\ resp.kind = "neterr") =>
            /\ pc = "aborted" /\ summary = None /\ exit_code = 1
            /\ ~ENABLED Next
    /\ pc = "aborted" =>
            /\ LastIs("write") /\ resp.kind = "neterr"
            /\ \A key \in accepted : remote[key] = <<Ip(key[2]).val>>

C7_Witness ==
    /\ pc = "aborted" /\ accepted # {}
    /\ \E idx \in 1..Len(records) : \E t \in DnsTypes :
            Ip(t).some /\ Reads(idx, t) = {}

(* C8 as stated: a read failure is fatal and aborts the run.               *)
C8_ReadFailureAborts ==
    (LastIs("read") /\ gandi_record = None) => pc = "aborted"

(* C8 as amended: a read failure is not fatal: no write call is issued for *)
(* the failed pair and the run goes on with the next pair.                 *)
C8_ReadFailureSkipsPair ==
    (LastIs("read") /\ gandi_record = None) =>
        /\ Writes(Last.idx, Last.dns_type) = {}
        /\ MovedPastLast
        /\ exit_code # 1

C8_Witness ==
    /\ LastIs("read") /\ gandi_record = None
    /\ resp.kind = "http" /\ ~is_success(resp.status)
    /\ pc = "pair" /\ i <= Len(records) /\ Ip(ip_configs[f].dns_type).some

(* C9: a run ends either completed, with the final count line and exit     *)
(* status 0, or aborted by a propagated network error, with a non-zero     *)
(* exit status and no count line; the count line is emitted if and only if *)
(* the exit status is 0, and a run that has not ended can take a step.     *)
C9_TwoOutcomes ==
    /\ pc = "done" <=> exit_code = 0
    /\ pc = "aborted" <=> exit_code = 1
    /\ exit_code \in {-1, 0, 1}
    /\ summary.some <=> exit_code = 0
    /\ pc = "done" => summary = Some(n_changed)
    /\ pc = "aborted" => resp.kind = "neterr"
    /\ pc \notin {"done", "aborted"} => (exit_code = -1 /\ ENABLED Next)
    /\ pc \in {"done", "aborted"} => ~ENABLED Next

C9_Witness == pc = "done" /\ n_changed = 0 /\ NumWrites > 0

(* C10: when the discovery of a family's address fails (transport failure, *)
(* non-2xx status or unparsable body) the family has no address, no read   *)
(* and no write call with its record type is issued, and the pairs of the  *)
(* other family are still processed.                                       *)
DiscoveryFailed ==
    resp.kind = "neterr" \/ ~is_success(resp.status) \/ ~resp.parsed

C10_FailedFamilySkipped ==
    /\ (LastIs("resolve") /\ DiscoveryFailed) =>
            (IF Last.dns_type = "v4" THEN ipv4 ELSE ipv6) = None
    /\ \A k \in 1..Len(log) :
            log[k].op \in {"read", "write"} => Ip(log[k].dns_type).some
    /\ pc = "done" => AllPairsRead

C10_Witness ==
    /\ pc = "done" /\ ipv4 = None /\ ipv6.some
    /\ Len(records) = 2
    /\ \A idx \in 1..2 : Reads(idx, "AAAA") # {} /\ Reads(idx, "A") = {}

(* C11: families are independent per record: after any outcome of the A    *)
(* pair that does not abort the run, main stands at the AAAA pair of the   *)
(* same record and, an IPv6 address being discovered, issues its read; and *)
(* whether the AAAA pair is written is decided by the values its own read  *)
(* returned alone.                                                         *)
C11_FamiliesIndependent ==
    /\ (/\ Len(log) > 0 /\ Last.op \in {"read", "write"} /\ Last.dns_type = "A"
        /\ pc \notin {"write", "aborted"} /\ ipv6.some) =>
            /\ pc = "pair" /\ i = Last.idx /\ f = 2
            /\ ENABLED ReadRecord
    /\ (LastIs("read") /\ Last.dns_type = "AAAA") =>
            (pc = "write" <=> (gandi_record.some /\ Len(gandi_record.val) > 0))
    /\ pc = "done" =>
            \A idx \in 1..Len(records) : ipv6.some => Reads(idx, "AAAA") # {}

C11_Witness ==
    /\ LastIs("read") /\ Last.dns_type = "AAAA" /\ pc = "write"
    /\ log[Len(log) - 1].op = "write" /\ log[Len(log) - 1].dns_type = "A"
    /\ log[Len(log) - 1].idx = Last.idx
    /\ n201 = 0

(* C12: the calls of the pairs follow one total order: records in the      *)
(* configured order, A before AAAA within a record, the read before the    *)
(* write within a pair, every call about the record at its position: each  *)
(* call of a pair is followed only by calls that come later in that order. *)
OpRank(op) == IF op = "read" THEN 1 ELSE 2
CallBefore(a, b) ==
    \/ a.idx < b.idx
    \/ a.idx = b.idx /\ FamIdx(a.dns_type) < FamIdx(b.dns_type)
    \/ a.idx = b.idx /\ a.dns_type = b.dns_type /\ OpRank(a.op) < OpRank(b.op)
PairCalls == {k \in 1..Len(log) : log[k].op \in {"read", "write"}}

C12_FixedOrder ==
    /\ \A k \in 1..(Len(log) - 1) :
            log[k].op \in {"read", "write"} =>
                /\ log[k+1].op \in {"read", "write"}
                /\ CallBefore(log[k], log[k+1])
    /\ \A k \in 1..Len(log) : log[k].op \in {"read", "write"} =>
            /\ log[k].idx \in 1..Len(records)
            /\ log[k].name = records[log[k].idx]
            /\ log[k].dns_type \in DnsTypes

C12_Witness ==
    /\ pc = "done" /\ Len(records) = 2 /\ records[1] # records[2]
    /\ \A idx \in 1..2 : \A t \in DnsTypes :
            Reads(idx, t) # {} /\ Writes(idx, t) # {}

(* C13: the resolver is called once for IPv4 and then once for IPv6, both  *)
(* before the first read or write call, and the discovered addresses do    *)
(* not change during the rest of the run.                                  *)
ResolveCalls(v) ==
    {k \in 1..Len(log) : log[k].op = "resolve" /\ log[k].dns_type = v}
Resolved == pc \notin {"resolve4", "resolve6"}

C13_ResolvedOnceFirst ==
    /\ [](/\ pc = "resolve4" => log = <<>>
          /\ pc = "resolve6" => (Len(log) = 1 /\ ResolveCalls("v4") = {1})
          /\ Resolved => (ResolveCalls("v4") = {1} /\ ResolveCalls("v6") = {2})
          /\ ~Resolved => (ipv6 = None /\ PairCalls = {}))
    /\ [][Resolved => (ipv4' = ipv4 /\ ipv6' = ipv6)]_vars

C13_Witness ==
    /\ pc = "done" /\ ipv4.some /\ ipv6.some
    /\ Len(log) > 4 /\ NumWrites > 0

(* C14: nothing is retried: each occurrence of a record name and each      *)
(* family gets at most one read call and at most one write call, also      *)
(* after a failed read, a rejected write or an accepted one: no two calls  *)
(* of a run have the same operation, position and type.                    *)
SameCall(a, b) ==
    a.op = b.op /\ a.idx = b.idx /\ a.dns_type = b.dns_type

C14_NoRetry ==
    /\ \A k \in 1..Len(log) : \A m \in (k+1)..Len(log) :
            ~SameCall(log[k], log[m])
    /\ \A k \in 1..Len(log) :
            \/ log[k].op = "resolve" /\ log[k].idx = 0
                    /\ log[k].dns_type \in {"v4", "v6"}
            \/ log[k].op \in {"read", "write"} /\ log[k].idx \in 1..Len(records)
                    /\ log[k].dns_type \in DnsTypes
    /\ Len(log) <= 2 + 2 * Cardinality(DnsTypes) * Len(records)

C14_Witness ==
    /\ pc = "done" /\ LastIs("read") /\ gandi_record = None
    /\ Cardinality(Reads(Last.idx, Last.dns_type)) = 1
    /\ NumWrites > n201 /\ n201 > 0

(* C15: every write call for a pair comes right after a read of the same   *)
(* pair that succeeded (2xx, parsable) with a non-empty sequence; after a  *)
(* failed read no write is pending or issued for the pair.                 *)
C15_WriteNeedsGoodRead ==
    /\ pc = "write" =>
            /\ LastIs("read") /\ Last.idx = i /\ FamIdx(Last.dns_type) = f
            /\ resp.kind = "http" /\ is_success(resp.status) /\ resp.parsed
            /\ gandi_record.some /\ Len(gandi_record.val) > 0
    /\ LastIs("write") =>
            /\ gandi_record.some /\ Len(gandi_record.val) > 0
            /\ Reads(Last.idx, Last.dns_type) = {Len(log) - 1}
    /\ (LastIs("read") /\ (resp.kind = "neterr" \/ ~is_success(resp.status)
                            \/ ~resp.parsed)) =>
            /\ gandi_record = None
            /\ pc # "write"
            /\ Writes(Last.idx, Last.dns_type) = {}

C15_Witness ==
    /\ LastIs("write") /\ Len(log) > 4
    /\ \E idx \in 1..Len(records) : \E t \in DnsTypes :
            Reads(idx, t) # {} /\ Writes(idx, t) = {}
                /\ remote[<<records[idx], t>>] # <<>>

(* C16: every write call targets a configured record name at its own       *)
(* position and carries as its single value the address discovered for its *)
(* family (A with the IPv4 address, AAAA with the IPv6 address), whatever  *)
(* the remote record holds.                                                *)
C16_WritesCarryDiscovered ==
    \A k \in 1..Len(log) : log[k].op = "write" =>
        /\ log[k].idx \in 1..Len(records)
        /\ log[k].name = records[log[k].idx]
        /\ log[k].dns_type \in DnsTypes
        /\ Ip(log[k].dns_type).some
        /\ log[k].payload.rrset_values = <<Ip(log[k].dns_type).val>>
        /\ log[k].payload.rrset_values = <<CurAddr[log[k].dns_type]>>
        /\ <<log[k].name, log[k].dns_type>> \in accepted =>
                remote[<<log[k].name, log[k].dns_type>>]
                    = <<Ip(log[k].dns_type).val>>

C16_Witness ==
    /\ LastIs("write") /\ Last.dns_type = "AAAA"
    /\ gandi_record.val[1] = OldAddr["AAAA"]
    /\ Last.payload.rrset_values = <<CurAddr["AAAA"]>>
    /\ ipv4.some

(* C17: every run terminates, completed or aborted, after at most 2        *)
(* resolver calls, at most 2 x (number of configured records) read calls   *)
(* and no more write calls than read calls.                                *)
NumReads == Cardinality({k \in 1..Len(log) : log[k].op = "read"})
NumResolves == Cardinality({k \in 1..Len(log) : log[k].op = "resolve"})

C17_Terminates ==
    /\ <>(pc \in {"done", "aborted"})
    /\ [](/\ NumResolves <= 2
          /\ NumReads <= 2 * Len(records)
          /\ NumWrites <= NumReads)

C17_Witness ==
    /\ pc = "done" /\ Len(records) = 2
    /\ NumResolves = 2 /\ NumReads = 4 /\ NumWrites = 4

====
